---- MODULE Spec2Model ----
(***************************************************************************)
(* Model of the clay lexer (src/lexer/lexer.rs, src/lexer/token.rs).       *)
(*                                                                         *)
(* The input text is a sequence of one-character strings.  Only ASCII     *)
(* characters are modelled, so the character index used by                *)
(* input.chars().nth(i) and the byte index used by &input[a..b] coincide. *)
(* A panic!() or a failed slice aborts the process: it is recorded in     *)
(* ret and no further call is possible.                                   *)
(*                                                                         *)
(* next() is modelled twice: as one step (CallNext, computed by LexerNext) *)
(* and statement by statement (StepCall, StepMatch and one step per        *)
(* iteration of a scan loop), where pc is the place in next() and loc      *)
(* holds the locals of the arm being run.                                  *)
(***************************************************************************)
EXTENDS Integers, Sequences, FiniteSets, TLC

VARIABLES input, position, ret, callPos, lexPos, tokens, peeked, pc, loc

vars == <<input, position, ret, callPos, lexPos, tokens, peeked, pc, loc>>

(***************************************************************************)
(* Bounds of the model.                                                    *)
(***************************************************************************)
\* an input is the concatenation of at most MaxFrags fragments
MaxFrags == 2
\* get_nth_char is called with an index in 0..MaxNth
MaxNth == 3

(***************************************************************************)
(* Characters.                                                             *)
(***************************************************************************)
Digits == {"0", "1", "2", "3", "4", "5", "6", "7", "8", "9"}

Lower == {"a", "b", "c", "d", "e", "f", "g", "h", "i", "j", "k", "l", "m",
          "n", "o", "p", "q", "r", "s", "t", "u", "v", "w", "x", "y", "z"}

Upper == {"A", "B", "C", "D", "E", "F", "G", "H", "I", "J", "K", "L", "M",
          "N", "O", "P", "Q", "R", "S", "T", "U", "V", "W", "X", "Y", "Z"}

\* 'a'..='z' | 'A'..='Z' | '_'
IdentChars == Lower \cup Upper \cup {"_"}

\* Option<char>::None
NoneChar == "None"

(***************************************************************************)
(* token.rs: Position, TokenType, Token.                                   *)
(***************************************************************************)
Position(line, column, char) == [line |-> line, column |-> column, char |-> char]

\* a TokenType variant without payload
Kind(tag) == [tag |-> tag, text |-> <<>>]

\* Integer(usize): the value, written in decimal without leading zeros
IntegerKind(value) == [tag |-> "Integer", text |-> value]

\* Float(f32): the value, written as a decimal without leading zeros of the
\* whole part and without trailing zeros of the decimals (f32 rounding is
\* not modelled)
FloatKind(value) == [tag |-> "Float", text |-> value]

\* String(&str)
StringKind(s) == [tag |-> "String", text |-> s]

\* Ident(&str)
IdentKind(s) == [tag |-> "Ident", text |-> s]

Token(kind, pos) == [kind |-> kind, position |-> pos]

MatchKeyword(string) ==
    IF string = <<"m", "a", "t", "c", "h">> THEN Kind("Match")
    ELSE IF string = <<"i", "m", "p", "o", "r", "t">> THEN Kind("Import")
    ELSE IdentKind(string)

(***************************************************************************)
(* What a call of next() gives: None, Some(token), or a panic.             *)
(***************************************************************************)
NoToken == Token(Kind("NoToken"), Position(0, 0, 0))

RetNoCall == [tag |-> "NoCall", tok |-> NoToken, msg |-> ""]
RetNone == [tag |-> "None", tok |-> NoToken, msg |-> ""]
RetSome(tok) == [tag |-> "Some", tok |-> tok, msg |-> ""]
RetPanic(msg) == [tag |-> "Panic", tok |-> NoToken, msg |-> msg]

(***************************************************************************)
(* lexer.rs: cursor and lookahead.                                         *)
(***************************************************************************)
ConsumeChar(pos) == [pos EXCEPT !.column = @ + 1, !.char = @ + 1]

GetNthChar(inp, n) == IF n + 1 <= Len(inp) THEN inp[n + 1] ELSE NoneChar

GetCurrentChar(inp, pos) == IF pos.char + 1 <= Len(inp) THEN inp[pos.char + 1] ELSE NoneChar

GetPeekChar(inp, pos) == IF pos.char + 2 <= Len(inp) THEN inp[pos.char + 2] ELSE NoneChar

\* a lex_single_char that reads the position after consuming
LexSingleCharAfter(pos, kind) ==
    [position |-> ConsumeChar(pos), ret |-> RetSome(Token(kind, ConsumeChar(pos)))]

LexSingleChar(pos, kind) ==
    [position |-> ConsumeChar(pos), ret |-> RetSome(Token(kind, pos))]

\* a lex_double_char that consumes one character only
LexDoubleCharOnce(pos, kind) ==
    [position |-> ConsumeChar(pos), ret |-> RetSome(Token(kind, pos))]

LexDoubleChar(pos, kind) ==
    [position |-> ConsumeChar(ConsumeChar(pos)), ret |-> RetSome(Token(kind, pos))]

\* &self.input[a..b]: fails when a > b or b is past the end
SliceOk(inp, a, b) == a <= b /\ b <= Len(inp)

Slice(inp, a, b) == SubSeq(inp, a + 1, b)

(***************************************************************************)
(* str::parse as the numeric arm uses it.  The scanned text holds only     *)
(* digits and '.' characters.                                              *)
(***************************************************************************)
DigitSeq == <<"0", "1", "2", "3", "4", "5", "6", "7", "8", "9">>

DigitVal(c) == CHOOSE n \in 0..9 : DigitSeq[n + 1] = c

RECURSIVE StripLeadingZeros(_)
StripLeadingZeros(ds) ==
    IF Len(ds) > 0 /\ ds[1] = "0" THEN StripLeadingZeros(Tail(ds)) ELSE ds

RECURSIVE StripTrailingZeros(_)
StripTrailingZeros(ds) ==
    IF Len(ds) > 0 /\ ds[Len(ds)] = "0"
    THEN StripTrailingZeros(SubSeq(ds, 1, Len(ds) - 1)) ELSE ds

\* the decimal digits of usize::MAX = 2^64 - 1
UsizeMaxDigits == <<"1", "8", "4", "4", "6", "7", "4", "4", "0", "7",
                    "3", "7", "0", "9", "5", "5", "1", "6", "1", "5">>

\* ds <= es for digit sequences of equal length
RECURSIVE DigitsLeq(_, _)
DigitsLeq(ds, es) ==
    IF Len(ds) = 0 THEN TRUE
    ELSE IF ds[1] = es[1] THEN DigitsLeq(Tail(ds), Tail(es))
    ELSE DigitVal(ds[1]) < DigitVal(es[1])

FitsUsize(ds) ==
    LET sig == StripLeadingZeros(ds)
    IN  \/ Len(sig) < Len(UsizeMaxDigits)
        \/ Len(sig) = Len(UsizeMaxDigits) /\ DigitsLeq(sig, UsizeMaxDigits)

\* num.parse::<usize>() is Ok (usize is 64 bits wide)
ParseUsizeOk(num) ==
    /\ Len(num) > 0
    /\ \A i \in 1..Len(num) : num[i] \in Digits
    /\ FitsUsize(num)

\* the decimal numeral of a digit sequence, without leading zeros
Numeral(ds) == IF StripLeadingZeros(ds) = <<>> THEN <<"0">> ELSE StripLeadingZeros(ds)

ParseUsize(num) == Numeral(num)

DotCount(num) == Cardinality({i \in 1..Len(num) : num[i] = "."})

\* num.parse::<f32>() is Ok
ParseF32Ok(num) ==
    /\ \A i \in 1..Len(num) : num[i] \in Digits \cup {"."}
    /\ \E i \in 1..Len(num) : num[i] \in Digits
    /\ DotCount(num) <= 1

\* the value of a text with one '.'
ParseF32(num) ==
    LET dot == CHOOSE i \in 1..Len(num) : num[i] = "."
        whole == Numeral(SubSeq(num, 1, dot - 1))
        decimals == StripTrailingZeros(SubSeq(num, dot + 1, Len(num)))
    IN  FloatKind(whole \o <<".">> \o decimals)

\* a fallback arm that answers with a Period token
UndefinedAsPeriod(pos) == LexSingleChar(pos, Kind("Period"))

(***************************************************************************)
(* lexer.rs: the arms of next().  An arm gives the cursor it leaves and    *)
(* what the call returns.                                                  *)
(***************************************************************************)
Undefined(pos) == [position |-> pos, ret |-> RetPanic("Undefined token.")]

\* operator arms that fall back to the single-character operator
OperatorArmFallback(pos, peek_char, second, double, single) ==
    IF peek_char = second THEN LexDoubleChar(pos, Kind(double))
    ELSE LexSingleChar(pos, Kind(single))

\* '!' '=' '|' '&' '+' '-' '/' '*' => match peek_char { ... }
OperatorArm(pos, peek_char, second, double, single) ==
    IF peek_char = second THEN LexDoubleChar(pos, Kind(double))
    ELSE IF peek_char \in {NoneChar, " ", "\t", "\r"} THEN LexSingleChar(pos, Kind(single))
    ELSE Undefined(pos)

\* a numeric scan that consumes a '.' whatever follows it
RECURSIVE NumScanDotAlways(_, _, _, _)
NumScanDotAlways(inp, pos, num, num_type) ==
    LET ch == GetCurrentChar(inp, pos)
    IN  IF ch = NoneChar THEN [position |-> pos, num |-> num, num_type |-> num_type]
        ELSE IF ch \in Digits
            THEN NumScanDotAlways(inp, ConsumeChar(pos), Append(num, ch), num_type)
        ELSE IF ch = "."
            THEN NumScanDotAlways(inp, ConsumeChar(pos), Append(num, ch), "Float")
        ELSE [position |-> pos, num |-> num, num_type |-> num_type]

\* a numeric scan that consumes the '.' without switching to Float
RECURSIVE NumScanKeepsInt(_, _, _, _)
NumScanKeepsInt(inp, pos, num, num_type) ==
    LET ch == GetCurrentChar(inp, pos)
    IN  IF ch = NoneChar THEN [position |-> pos, num |-> num, num_type |-> num_type]
        ELSE IF ch \in Digits \/ (ch = "." /\ GetPeekChar(inp, pos) \in Digits)
            THEN NumScanKeepsInt(inp, ConsumeChar(pos), Append(num, ch), num_type)
        ELSE [position |-> pos, num |-> num, num_type |-> num_type]

\* while let Some(ch) = self.get_current_char() { ... } of the numeric arm
RECURSIVE NumScan(_, _, _, _)
NumScan(inp, pos, num, num_type) ==
    LET ch == GetCurrentChar(inp, pos)
    IN  IF ch = NoneChar THEN [position |-> pos, num |-> num, num_type |-> num_type]
        ELSE IF ch \in Digits
            THEN NumScan(inp, ConsumeChar(pos), Append(num, ch), num_type)
        ELSE IF ch = "." /\ GetPeekChar(inp, pos) \in Digits
            THEN NumScan(inp, ConsumeChar(pos), Append(num, ch), "Float")
        ELSE [position |-> pos, num |-> num, num_type |-> num_type]

NumberArm(inp, pos) ==
    LET scan == NumScan(inp, pos, <<>>, "Int")
    IN  IF scan.num_type = "Int"
        THEN IF ParseUsizeOk(scan.num)
             THEN [position |-> scan.position,
                   ret |-> RetSome(Token(IntegerKind(ParseUsize(scan.num)), pos))]
             ELSE [position |-> scan.position, ret |-> RetPanic("ParseIntError")]
        ELSE IF ParseF32Ok(scan.num)
             THEN [position |-> scan.position,
                   ret |-> RetSome(Token(ParseF32(scan.num), pos))]
             ELSE [position |-> scan.position, ret |-> RetPanic("ParseFloatError")]

\* a string scan that does not count the newlines of the literal
RECURSIVE StringScanNoLine(_, _, _)
StringScanNoLine(inp, pos, end) ==
    LET ch == GetCurrentChar(inp, pos)
    IN  IF ch = NoneChar THEN [position |-> pos, end |-> end]
        ELSE IF ch = "\""
            THEN [position |-> ConsumeChar(pos), end |-> ConsumeChar(pos).char]
        ELSE StringScanNoLine(inp, ConsumeChar(pos), end)

\* a string scan that sets end when the input ends inside the literal
RECURSIVE StringScanTruncates(_, _, _)
StringScanTruncates(inp, pos, end) ==
    LET ch == GetCurrentChar(inp, pos)
    IN  IF ch = NoneChar THEN [position |-> pos, end |-> pos.char]
        ELSE IF ch = "\""
            THEN [position |-> ConsumeChar(pos), end |-> ConsumeChar(pos).char]
        ELSE IF ch = "\n"
            THEN StringScanTruncates(inp, ConsumeChar([pos EXCEPT !.line = @ + 1, !.column = 0]), end)
        ELSE StringScanTruncates(inp, ConsumeChar(pos), end)

\* while let Some(ch) = self.get_current_char() { ... } of the string arm
RECURSIVE StringScan(_, _, _)
StringScan(inp, pos, end) ==
    LET ch == GetCurrentChar(inp, pos)
    IN  IF ch = NoneChar THEN [position |-> pos, end |-> end]
        ELSE IF ch = "\""
            THEN [position |-> ConsumeChar(pos), end |-> ConsumeChar(pos).char]
        ELSE IF ch = "\n"
            THEN StringScan(inp, ConsumeChar([pos EXCEPT !.line = @ + 1, !.column = 0]), end)
        ELSE StringScan(inp, ConsumeChar(pos), end)

StringArm(inp, pos) ==
    LET start == ConsumeChar(pos)
        scan == StringScan(inp, start, 0)
    IN  IF SliceOk(inp, start.char, scan.end)
        THEN [position |-> scan.position,
              ret |-> RetSome(Token(StringKind(Slice(inp, start.char, scan.end)),
                                    scan.position))]
        ELSE [position |-> scan.position, ret |-> RetPanic("slice index")]

\* while let Some(ch) = self.get_current_char() { ... } of the identifier arm
RECURSIVE IdentScan(_, _)
IdentScan(inp, pos) ==
    LET ch == GetCurrentChar(inp, pos)
    IN  IF ch = NoneChar THEN pos
        ELSE IF ch \in IdentChars THEN IdentScan(inp, ConsumeChar(pos))
        ELSE pos

IdentArm(inp, pos) ==
    LET after == IdentScan(inp, pos)
        end == 0
    IN  IF SliceOk(inp, pos.char, end)
        THEN [position |-> after,
              ret |-> RetSome(Token(MatchKeyword(Slice(inp, pos.char, end)), pos))]
        ELSE [position |-> after, ret |-> RetPanic("slice index")]

(***************************************************************************)
(* lexer.rs: Iterator::next.  lexPos is the cursor at the entry of the     *)
(* (innermost, after the newline / blank recursion) call whose arm         *)
(* produced the result.                                                    *)
(***************************************************************************)
Arm(inp, pos, current_char, peek_char) ==
    CASE current_char = "(" -> LexSingleChar(pos, Kind("LParen"))
      [] current_char = ")" -> LexSingleChar(pos, Kind("RParen"))
      [] current_char = "[" -> LexSingleChar(pos, Kind("LBracket"))
      [] current_char = "]" -> LexSingleChar(pos, Kind("RBracket"))
      [] current_char = "{" -> LexSingleChar(pos, Kind("LBrace"))
      [] current_char = "}" -> LexSingleChar(pos, Kind("RBrace"))
      [] current_char = "!" -> OperatorArm(pos, peek_char, "=", "BangEqual", "Bang")
      [] current_char = "=" -> OperatorArm(pos, peek_char, "=", "DoubleEqual", "Equal")
      [] current_char = "|" -> OperatorArm(pos, peek_char, "|", "Or", "Bar")
      [] current_char = "&" -> OperatorArm(pos, peek_char, "&", "And", "Ampersand")
      [] current_char = "+" -> OperatorArm(pos, peek_char, "=", "PlusEqual", "Plus")
      [] current_char = "-" -> OperatorArm(pos, peek_char, "=", "MinusEqual", "Minus")
      [] current_char = "/" -> OperatorArm(pos, peek_char, "=", "SlashEqual", "Slash")
      [] current_char = "*" -> OperatorArm(pos, peek_char, "=", "AsteriskEqual", "Asterisk")
      [] current_char \in Digits -> NumberArm(inp, pos)
      [] current_char = "\"" -> StringArm(inp, pos)
      [] current_char \in IdentChars -> IdentArm(inp, pos)
      [] OTHER -> Undefined(pos)

\* a next() whose newline / blank arms return None instead of recursing
LexerNextBlankEnds(inp, pos) ==
    LET current_char == GetCurrentChar(inp, pos)
        peek_char == GetPeekChar(inp, pos)
    IN  IF current_char = NoneChar
        THEN [position |-> pos, ret |-> RetNone, lexPos |-> pos]
        ELSE IF current_char \in {"\n", " ", "\t", "\r"}
        THEN [position |-> ConsumeChar(pos), ret |-> RetNone, lexPos |-> ConsumeChar(pos)]
        ELSE LET arm == Arm(inp, pos, current_char, peek_char)
             IN  [position |-> arm.position, ret |-> arm.ret, lexPos |-> pos]

RECURSIVE LexerNext(_, _)
LexerNext(inp, pos) ==
    LET current_char == GetCurrentChar(inp, pos)
        peek_char == GetPeekChar(inp, pos)
    IN  IF current_char = NoneChar
        THEN [position |-> pos, ret |-> RetNone, lexPos |-> pos]
        ELSE IF current_char = "\n"
        THEN LexerNext(inp, ConsumeChar([pos EXCEPT !.line = @ + 1, !.column = 0]))
        ELSE IF current_char \in {" ", "\t", "\r"}
        THEN LexerNext(inp, ConsumeChar(pos))
        ELSE LET arm == Arm(inp, pos, current_char, peek_char)
             IN  [position |-> arm.position, ret |-> arm.ret, lexPos |-> pos]

(***************************************************************************)
(* The inputs: every concatenation of at most MaxFrags fragments, after an *)
(* optional lead.  The fragments are single characters of every class the  *)
(* lexer tells apart, and the texts of the documented scenarios.           *)
(***************************************************************************)
Chars == {"(", ")", "[", "]", "{", "}",
          "!", "=", "|", "&", "+", "-", "/", "*",
          "0", "1", "2", ".", "\"", "a", "Z", "_",
          "\n", " ", "\t", "\r", "%", ";"}

\* the decimal digits of 2^64, the least integer literal usize cannot hold
UsizeOverflowDigits == <<"1", "8", "4", "4", "6", "7", "4", "4", "0", "7",
                         "3", "7", "0", "9", "5", "5", "1", "6", "1", "6">>

Words == {<<"m", "a", "t", "c", "h">>,
          <<"i", "m", "p", "o", "r", "t">>,
          <<"f", "o", "o", "_", "b", "a", "r">>,
          <<"1", " ", "+", " ", "2", ".", "3", "5", "5", "5">>,
          <<"\"", "h", "i", "\n", "t", "h", "e", "r", "e", "\"">>,
          <<"1", ".", "2", ".", "3">>,
          UsizeMaxDigits,
          UsizeOverflowDigits}

Fragments == {<<c>> : c \in Chars} \cup Words

RECURSIVE FragSeqs(_)
FragSeqs(n) ==
    IF n = 0 THEN {<<>>}
    ELSE LET shorter == FragSeqs(n - 1)
         IN  shorter \cup {s \o f : s \in shorter, f \in Fragments}

\* what may precede the fragments: nothing, a blank, a newline, or a token
\* and a blank
Leads == {<<>>, <<" ">>, <<"\n">>, <<"(", " ">>}

Inputs == {l \o b : l \in Leads, b \in FragSeqs(MaxFrags)}

NoPeek == [op |-> "none", n |-> 0, result |-> NoneChar]

\* the locals of an arm: position, num, num_type, end
NoLocals == [position |-> Position(0, 0, 0), num |-> <<>>, num_type |-> "Int", end |-> 0]

InitWith(inputs) ==
    /\ input \in inputs
    /\ position = Position(1, 0, 0)
    /\ ret = RetNoCall
    /\ callPos = Position(1, 0, 0)
    /\ lexPos = Position(1, 0, 0)
    /\ tokens = <<>>
    /\ peeked = NoPeek
    /\ pc = "idle"
    /\ loc = NoLocals

Init == InitWith(Inputs)

\* the consumer pulls the next token; a panic has ended the process
CallNext ==
    /\ pc = "idle"
    /\ ret.tag # "Panic"
    /\ LET out == LexerNext(input, position)
       IN  /\ position' = out.position
           /\ ret' = out.ret
           /\ lexPos' = out.lexPos
           /\ tokens' = IF out.ret.tag = "Some" THEN Append(tokens, out.ret.tok) ELSE tokens
    /\ callPos' = position
    /\ peeked' = NoPeek
    /\ UNCHANGED <<input, pc, loc>>

\* self.get_nth_char(n)
CallGetNthChar ==
    /\ pc = "idle"
    /\ ret.tag # "Panic"
    /\ \E n \in 0..MaxNth :
          peeked' = [op |-> "get_nth_char", n |-> n, result |-> GetNthChar(input, n)]
    /\ UNCHANGED <<input, position, ret, callPos, lexPos, tokens, pc, loc>>

\* self.get_current_char()
CallGetCurrentChar ==
    /\ pc = "idle"
    /\ ret.tag # "Panic"
    /\ peeked' = [op |-> "get_current_char", n |-> position.char,
                  result |-> GetCurrentChar(input, position)]
    /\ UNCHANGED <<input, position, ret, callPos, lexPos, tokens, pc, loc>>

\* a get_peek_char that advances the cursor it reads through
CallGetPeekCharConsuming ==
    /\ pc = "idle"
    /\ ret.tag # "Panic"
    /\ peeked' = [op |-> "get_peek_char", n |-> position.char + 1,
                  result |-> GetPeekChar(input, position)]
    /\ position' = ConsumeChar(position)
    /\ UNCHANGED <<input, ret, callPos, lexPos, tokens, pc, loc>>

\* self.get_peek_char()
CallGetPeekChar ==
    /\ pc = "idle"
    /\ ret.tag # "Panic"
    /\ peeked' = [op |-> "get_peek_char", n |-> position.char + 1,
                  result |-> GetPeekChar(input, position)]
    /\ UNCHANGED <<input, position, ret, callPos, lexPos, tokens, pc, loc>>

\* the consumer of the token stream
Next == CallNext

Spec == Init /\ [][Next]_vars

\* a caller that also uses the lookahead operations between the pulls
NextLookahead == CallNext \/ CallGetNthChar \/ CallGetCurrentChar \/ CallGetPeekChar

InitLookahead == InitWith(FragSeqs(MaxFrags))

SpecLookahead == InitLookahead /\ [][NextLookahead]_vars

(***************************************************************************)
(* next(), statement by statement.                                         *)
(***************************************************************************)
\* the call returns r with the cursor at pos
Return(pos, r) ==
    /\ position' = pos
    /\ ret' = r
    /\ tokens' = IF r.tag = "Some" THEN Append(tokens, r.tok) ELSE tokens
    /\ pc' = "idle"
    /\ loc' = NoLocals

\* the consumer calls next(); a panic has ended the process
StepCall ==
    /\ pc = "idle"
    /\ ret.tag # "Panic"
    /\ pc' = "next"
    /\ callPos' = position
    /\ peeked' = NoPeek
    /\ UNCHANGED <<input, position, ret, lexPos, tokens, loc>>

\* the body of next() up to the scan loop of its arm; the newline and blank
\* arms consume one character and call next() again
StepMatch ==
    /\ pc = "next"
    /\ LET current_char == GetCurrentChar(input, position)
           peek_char == GetPeekChar(input, position)
       IN  IF current_char = NoneChar
           THEN Return(position, RetNone) /\ lexPos' = position
           ELSE IF current_char = "\n"
           THEN /\ position' = ConsumeChar([position EXCEPT !.line = @ + 1, !.column = 0])
                /\ UNCHANGED <<ret, lexPos, tokens, pc, loc>>
           ELSE IF current_char \in {" ", "\t", "\r"}
           THEN /\ position' = ConsumeChar(position)
                /\ UNCHANGED <<ret, lexPos, tokens, pc, loc>>
           ELSE IF current_char \in Digits
           THEN /\ pc' = "num"
                /\ loc' = [NoLocals EXCEPT !.position = position]
                /\ lexPos' = position
                /\ UNCHANGED <<position, ret, tokens>>
           ELSE IF current_char = "\""
           THEN /\ pc' = "string"
                /\ position' = ConsumeChar(position)
                /\ loc' = [NoLocals EXCEPT !.position = ConsumeChar(position)]
                /\ lexPos' = position
                /\ UNCHANGED <<ret, tokens>>
           ELSE IF current_char \in IdentChars
           THEN /\ pc' = "ident"
                /\ loc' = [NoLocals EXCEPT !.position = position]
                /\ lexPos' = position
                /\ UNCHANGED <<position, ret, tokens>>
           ELSE LET arm == Arm(input, position, current_char, peek_char)
                IN  Return(arm.position, arm.ret) /\ lexPos' = position
    /\ UNCHANGED <<input, callPos, peeked>>

\* one iteration of the numeric scan loop, or its exit and the parse
StepNumLoop ==
    /\ pc = "num"
    /\ LET ch == GetCurrentChar(input, position)
       IN  IF ch \in Digits
           THEN /\ loc' = [loc EXCEPT !.num = Append(@, ch)]
                /\ position' = ConsumeChar(position)
                /\ UNCHANGED <<ret, tokens, pc>>
           ELSE IF ch = "." /\ GetPeekChar(input, position) \in Digits
           THEN /\ loc' = [loc EXCEPT !.num = Append(@, ch), !.num_type = "Float"]
                /\ position' = ConsumeChar(position)
                /\ UNCHANGED <<ret, tokens, pc>>
           ELSE IF loc.num_type = "Int"
           THEN IF ParseUsizeOk(loc.num)
                THEN Return(position,
                            RetSome(Token(IntegerKind(ParseUsize(loc.num)), loc.position)))
                ELSE Return(position, RetPanic("ParseIntError"))
           ELSE IF ParseF32Ok(loc.num)
                THEN Return(position, RetSome(Token(ParseF32(loc.num), loc.position)))
                ELSE Return(position, RetPanic("ParseFloatError"))
    /\ UNCHANGED <<input, callPos, lexPos, peeked>>

\* the end of the string arm: the slice and the token
StringReturn(pos, end) ==
    IF SliceOk(input, loc.position.char, end)
    THEN Return(pos, RetSome(Token(StringKind(Slice(input, loc.position.char, end)), pos)))
    ELSE Return(pos, RetPanic("slice index"))

\* a string scan loop whose newline branch forgets to consume
StepStringLoopStuck ==
    /\ pc = "string"
    /\ LET ch == GetCurrentChar(input, position)
       IN  IF ch = NoneChar THEN StringReturn(position, loc.end)
           ELSE IF ch = "\""
           THEN StringReturn(ConsumeChar(position), ConsumeChar(position).char)
           ELSE IF ch = "\n"
           THEN /\ position' = [position EXCEPT !.line = @ + 1, !.column = 0]
                /\ UNCHANGED <<ret, tokens, pc, loc>>
           ELSE /\ position' = ConsumeChar(position)
                /\ UNCHANGED <<ret, tokens, pc, loc>>
    /\ UNCHANGED <<input, callPos, lexPos, peeked>>

\* one iteration of the string scan loop, or its exit and the slice
StepStringLoop ==
    /\ pc = "string"
    /\ LET ch == GetCurrentChar(input, position)
       IN  IF ch = NoneChar THEN StringReturn(position, loc.end)
           ELSE IF ch = "\""
           THEN StringReturn(ConsumeChar(position), ConsumeChar(position).char)
           ELSE IF ch = "\n"
           THEN /\ position' = ConsumeChar([position EXCEPT !.line = @ + 1, !.column = 0])
                /\ UNCHANGED <<ret, tokens, pc, loc>>
           ELSE /\ position' = ConsumeChar(position)
                /\ UNCHANGED <<ret, tokens, pc, loc>>
    /\ UNCHANGED <<input, callPos, lexPos, peeked>>

\* one iteration of the identifier scan loop, or its exit and the slice
StepIdentLoop ==
    /\ pc = "ident"
    /\ LET ch == GetCurrentChar(input, position)
       IN  IF ch \in IdentChars
           THEN /\ position' = ConsumeChar(position)
                /\ UNCHANGED <<ret, tokens, pc, loc>>
           ELSE IF SliceOk(input, loc.position.char, loc.end)
           THEN Return(position,
                       RetSome(Token(MatchKeyword(Slice(input, loc.position.char, loc.end)),
                                     loc.position)))
           ELSE Return(position, RetPanic("slice index"))
    /\ UNCHANGED <<input, callPos, lexPos, peeked>>

NextSteps == StepCall \/ StepMatch \/ StepNumLoop \/ StepStringLoop \/ StepIdentLoop

InitSteps == InitWith(FragSeqs(MaxFrags))

\* next() is synchronous and the consumer (collect) keeps pulling: a step
\* that can be taken is taken
SpecSteps == InitSteps /\ [][NextSteps]_vars /\ WF_vars(NextSteps)

(***************************************************************************)
(* Properties of next().                                                   *)
(***************************************************************************)
Called == ret.tag # "NoCall"

\* the characters next() skips without producing a token
Skipped == {"\n", " ", "\t", "\r"}

\* every character of inp from offset k on is one that next() skips
OnlySkippedFrom(inp, k) == \A i \in (k + 1)..Len(inp) : inp[i] \in Skipped

\* C1 (as stated): a call of next() returns None if and only if the cursor
\* offset at the moment of the call is at or past the end of the input.
C1_NoneIffCalledAtEnd ==
    Called => (ret.tag = "None" <=> callPos.char >= Len(input))

\* C1 (amended): a call of next() returns None if and only if every
\* character from the cursor offset at the moment of the call to the end of
\* the input is a newline, blank, tab or carriage return (none at all when
\* the cursor is at the end); the call then leaves the cursor at the end.
\* In every other state it returns a token or aborts.
C1_NoneIffOnlySkippedLeft ==
    Called =>
        /\ ret.tag = "None" <=> OnlySkippedFrom(input, callPos.char)
        /\ ret.tag = "None" => position.char = Len(input)
        /\ ret.tag \in {"None", "Some", "Panic"}

\* a call made on trailing white space, after a token, returned None
C1_Witness ==
    /\ ret.tag = "None"
    /\ callPos.char < Len(input)
    /\ Len(tokens) > 0

\* C2: the position of every returned token is the cursor position of the
\* first character of its lexeme, as it was before the lexeme was consumed
\* (for a String token: the position of its opening quote).
C2_TokenPositionIsLexemeStart ==
    ret.tag = "Some" => ret.tok.position = lexPos

\* C3: in the sequence of tokens produced by successive next() calls the
\* offset of each token is strictly greater than that of the token before.
C3_OffsetsStrictlyIncrease ==
    \A i \in 1..(Len(tokens) - 1) :
        tokens[i].position.char < tokens[i + 1].position.char

(***************************************************************************)
(* Inputs made of numeric literals and operators separated by single       *)
(* blanks, and the tokens expected of them.                                *)
(***************************************************************************)
\* the one- and two-character operators of the operator arms
OperatorTexts ==
    {[text |-> <<"!">>, tag |-> "Bang"], [text |-> <<"!", "=">>, tag |-> "BangEqual"],
     [text |-> <<"=">>, tag |-> "Equal"], [text |-> <<"=", "=">>, tag |-> "DoubleEqual"],
     [text |-> <<"|">>, tag |-> "Bar"], [text |-> <<"|", "|">>, tag |-> "Or"],
     [text |-> <<"&">>, tag |-> "Ampersand"], [text |-> <<"&", "&">>, tag |-> "And"],
     [text |-> <<"+">>, tag |-> "Plus"], [text |-> <<"+", "=">>, tag |-> "PlusEqual"],
     [text |-> <<"-">>, tag |-> "Minus"], [text |-> <<"-", "=">>, tag |-> "MinusEqual"],
     [text |-> <<"/">>, tag |-> "Slash"], [text |-> <<"/", "=">>, tag |-> "SlashEqual"],
     [text |-> <<"*">>, tag |-> "Asterisk"], [text |-> <<"*", "=">>, tag |-> "AsteriskEqual"]}

IsOperatorText(t) == \E o \in OperatorTexts : o.text = t

OperatorTag(t) == (CHOOSE o \in OperatorTexts : o.text = t).tag

\* digits, or digits '.' digits
IsIntegerText(t) == Len(t) > 0 /\ \A i \in 1..Len(t) : t[i] \in Digits

IsFloatText(t) ==
    /\ Len(t) >= 3
    /\ \A i \in 1..Len(t) : t[i] \in Digits \cup {"."}
    /\ Cardinality({i \in 1..Len(t) : t[i] = "."}) = 1
    /\ t[1] \in Digits
    /\ t[Len(t)] \in Digits

\* the lexemes of inp from index i (1-based) on, split at the blanks
RECURSIVE LexemesFrom(_, _)
LexemesFrom(inp, i) ==
    IF i > Len(inp) THEN <<>>
    ELSE IF inp[i] = " " THEN LexemesFrom(inp, i + 1)
    ELSE LET stop == CHOOSE j \in i..Len(inp) :
                        /\ \A k \in i..j : inp[k] # " "
                        /\ (j = Len(inp) \/ inp[j + 1] = " ")
         IN  <<[start |-> i - 1, text |-> SubSeq(inp, i, stop)]>>
                 \o LexemesFrom(inp, stop + 1)

Lexemes(inp) == LexemesFrom(inp, 1)

BlankSeparated(inp) ==
    /\ Len(inp) > 0
    /\ inp[1] # " "
    /\ inp[Len(inp)] # " "
    /\ \A i \in 1..(Len(inp) - 1) : ~(inp[i] = " " /\ inp[i + 1] = " ")

NumbersAndOperators(inp) ==
    /\ BlankSeparated(inp)
    /\ \A i \in 1..Len(Lexemes(inp)) :
          LET t == Lexemes(inp)[i].text
          IN  IsIntegerText(t) \/ IsFloatText(t) \/ IsOperatorText(t)

\* an integer literal that usize (64 bits) can hold
FitsInteger(t) == IsIntegerText(t) => FitsUsize(t)

ExpectedKind(t) ==
    IF IsOperatorText(t) THEN Kind(OperatorTag(t))
    ELSE IF IsIntegerText(t) THEN IntegerKind(Numeral(t))
    ELSE ParseF32(t)

ExpectedToken(inp, i) ==
    LET l == Lexemes(inp)[i]
    IN  Token(ExpectedKind(l.text), Position(1, l.start, l.start))

\* the number of lexemes that start before offset k
StartedBefore(inp, k) ==
    Cardinality({i \in 1..Len(Lexemes(inp)) : Lexemes(inp)[i].start < k})

Example4 == <<"1", " ", "+", " ", "2", ".", "3", "5", "5", "5">>

\* no call has aborted, and the tokens produced so far are exactly those of
\* the lexemes consumed so far, one per lexeme and in source order, each at
\* the offset of its lexeme's first character
OneTokenPerLexeme ==
    /\ ret.tag # "Panic"
    /\ Len(tokens) = StartedBefore(input, position.char)
    /\ \A i \in 1..Len(tokens) : tokens[i] = ExpectedToken(input, i)
    /\ ret.tag = "None" => Len(tokens) = Len(Lexemes(input))
    /\ (input = Example4 /\ ret.tag = "None") =>
          tokens = <<Token(IntegerKind(<<"1">>), Position(1, 0, 0)),
                     Token(Kind("Plus"), Position(1, 2, 2)),
                     Token(FloatKind(<<"2", ".", "3", "5", "5", "5">>),
                           Position(1, 4, 4))>>

AtIdentifier == Called /\ GetCurrentChar(input, lexPos) \in IdentChars

AtString == Called /\ GetCurrentChar(input, lexPos) = "\""

\* the offset just past the maximal run of letters / underscores from k
RunEnd(inp, k) ==
    CHOOSE e \in k..Len(inp) :
        /\ \A i \in (k + 1)..e : inp[i] \in IdentChars
        /\ (e = Len(inp) \/ inp[e + 1] \notin IdentChars)

Run(inp, k) == SubSeq(inp, k + 1, RunEnd(inp, k))

Reserved == {<<"m", "a", "t", "c", "h">>, <<"i", "m", "p", "o", "r", "t">>}

\* C5: on a letter or underscore next() consumes the maximal run of
\* letters / underscores and returns, without aborting, a token whose text
\* is that whole run (the keyword variant for a reserved word) and whose
\* position is the run's first character.
C5_IdentifierIsWholeRun ==
    AtIdentifier =>
        /\ ret.tag = "Some"
        /\ position.char = RunEnd(input, lexPos.char)
        /\ ret.tok.position = lexPos
        /\ \/ ret.tok.kind = IdentKind(Run(input, lexPos.char))
           \/ /\ Run(input, lexPos.char) \in Reserved
              /\ ret.tok.kind.tag \in {"Match", "Import"}

\* C6: whenever the run scanned is exactly a reserved word the returned
\* token is the keyword variant (Match / Import) and not Ident: "match"
\* yields Match.
C6_ReservedWordIsKeyword ==
    (AtIdentifier /\ ret.tag = "Some") =>
        /\ Run(input, lexPos.char) = <<"m", "a", "t", "c", "h">>
              => ret.tok.kind = Kind("Match")
        /\ Run(input, lexPos.char) = <<"i", "m", "p", "o", "r", "t">>
              => ret.tok.kind = Kind("Import")

\* the literal at offset k has a closing quote
Terminated(inp, k) == \E j \in (k + 2)..Len(inp) : inp[j] = "\""

\* the index (1-based) of the closing quote of the literal at offset k
ClosingQuote(inp, k) ==
    CHOOSE j \in (k + 2)..Len(inp) :
        inp[j] = "\"" /\ \A i \in (k + 2)..(j - 1) : inp[i] # "\""

\* C7: for a terminated string literal next() returns a String token whose
\* text is exactly the characters strictly between the two quotes, and the
\* cursor ends just after the closing quote.
C7_StringTextBetweenQuotes ==
    (AtString /\ Terminated(input, lexPos.char)) =>
        /\ ret.tag = "Some"
        /\ ret.tok.kind =
              StringKind(SubSeq(input, lexPos.char + 2,
                                ClosingQuote(input, lexPos.char) - 1))
        /\ position.char = ClosingQuote(input, lexPos.char)

(***************************************************************************)
(* One- and two-character operators.                                       *)
(***************************************************************************)
OperatorChars == {"!", "=", "|", "&", "+", "-", "/", "*"}

\* the two-character operator that starts with c, and the one made of c
DoubleOf(c) == CHOOSE o \in OperatorTexts : Len(o.text) = 2 /\ o.text[1] = c

SingleOf(c) == CHOOSE o \in OperatorTexts : o.text = <<c>>

AtOperator == Called /\ GetCurrentChar(input, lexPos) \in OperatorChars

\* C8: on an operator character whose lookahead completes a two-character
\* operator, next() consumes exactly two characters and returns the single
\* combined token positioned at the first character; "==" gives one
\* DoubleEqual at offset 0, then None.
C8_DoubleCharOperator ==
    /\ (/\ AtOperator
        /\ GetPeekChar(input, lexPos) = DoubleOf(GetCurrentChar(input, lexPos)).text[2])
          => /\ ret = RetSome(Token(Kind(DoubleOf(GetCurrentChar(input, lexPos)).tag),
                                    lexPos))
             /\ position = Position(lexPos.line, lexPos.column + 2, lexPos.char + 2)
             /\ tokens[Len(tokens)] = ret.tok
    /\ (input = <<"=", "=">> /\ ret.tag = "None")
          => tokens = <<Token(Kind("DoubleEqual"), Position(1, 0, 0))>>

\* a two-character operator was lexed after an earlier token
C8_Witness ==
    /\ ret.tag = "Some"
    /\ ret.tok.kind.tag = "Or"
    /\ ret.tok.position.char > 0
    /\ Len(tokens) = 2

\* C9: on an operator character whose lookahead is end of input, blank, tab
\* or carriage return, next() consumes exactly one character and returns
\* the single-character operator token; "!" yields Bang at offset 0.
C9_SingleCharOperator ==
    /\ (/\ AtOperator
        /\ GetPeekChar(input, lexPos) \in {NoneChar, " ", "\t", "\r"})
          => /\ ret = RetSome(Token(Kind(SingleOf(GetCurrentChar(input, lexPos)).tag),
                                    lexPos))
             /\ position = Position(lexPos.line, lexPos.column + 1, lexPos.char + 1)
             /\ tokens[Len(tokens)] = ret.tok
    /\ (input = <<"!">> /\ ret.tag = "None")
          => tokens = <<Token(Kind("Bang"), Position(1, 0, 0))>>

\* a single-character operator ended by the end of the input
C9_Witness ==
    /\ ret.tag = "Some"
    /\ ret.tok.kind.tag = "Bang"
    /\ ret.tok.position.char > 0
    /\ position.char = Len(input)

(***************************************************************************)
(* Lookahead.                                                              *)
(***************************************************************************)
\* C10: a lookahead call (get_nth_char, get_current_char, get_peek_char)
\* leaves the cursor and everything else of the lexer unchanged, returns
\* None exactly for an index past the end of the input and the character at
\* the index otherwise, and returns what the same call returned before when
\* it is repeated with no next() in between.
C10_LookaheadIsPure ==
    [][peeked'.op # "none" =>
          /\ position' = position
          /\ input' = input /\ ret' = ret /\ tokens' = tokens
          /\ peeked'.n >= Len(input) <=> peeked'.result = NoneChar
          /\ peeked'.n < Len(input) => peeked'.result = input[peeked'.n + 1]
          /\ (peeked.op = peeked'.op /\ peeked.n = peeked'.n)
                => peeked'.result = peeked.result]_vars

\* get_nth_char past the end gave None, after some token was produced
C10_Witness ==
    /\ peeked.op = "get_nth_char"
    /\ peeked.n >= Len(input)
    /\ peeked.result = NoneChar
    /\ Len(tokens) > 0

(***************************************************************************)
(* Termination.                                                            *)
(***************************************************************************)
\* next() run statement by statement gives what LexerNext computes
StepsAgreeWithNext ==
    (pc = "idle" /\ Called) =>
        LET out == LexerNext(input, callPos)
        IN  position = out.position /\ ret = out.ret /\ lexPos = out.lexPos

Finished == pc = "idle" /\ ret.tag \in {"None", "Panic"}

\* C11: the cursor offset never decreases; every iteration of a scan loop
\* (digits, string body, identifier run) and every newline / blank
\* recursion advances the cursor by one character; a call that returns a
\* token has advanced the cursor by at least one character; every call
\* returns or aborts, and repeated calls reach None or a fatal error.
C11_Terminates ==
    /\ [][position'.char >= position.char]_vars
    /\ [][(pc \in {"next", "num", "string", "ident"} /\ pc' = pc)
             => position'.char = position.char + 1]_vars
    /\ [][(pc # "idle" /\ pc' = "idle" /\ ret'.tag = "Some")
             => position'.char > callPos.char]_vars
    /\ (pc # "idle") ~> (pc = "idle")
    /\ <>Finished

\* a multi-line string and a following token were lexed to the end
C11_Witness ==
    /\ Finished
    /\ ret.tag = "None"
    /\ position.line > 1
    /\ Len(tokens) = 2

(***************************************************************************)
(* The source text of the tokens.                                          *)
(***************************************************************************)
DelimiterTexts == {<<"(">>, <<")">>, <<"[">>, <<"]">>, <<"{">>, <<"}">>}

IsIdentText(t) == Len(t) > 0 /\ \A i \in 1..Len(t) : t[i] \in IdentChars

\* a terminated string literal without white space in its body
IsStringText(t) ==
    /\ Len(t) >= 2
    /\ t[1] = "\"" /\ t[Len(t)] = "\""
    /\ \A i \in 2..(Len(t) - 1) : t[i] \notin Skipped \cup {"\""}

\* a numeric literal written as its value is: the token implies its length
IsPlainNumber(t) ==
    \/ IsIntegerText(t) /\ FitsUsize(t) /\ Numeral(t) = t
    \/ IsFloatText(t) /\ ParseF32(t).text = t

WellFormedTokens(inp) ==
    /\ BlankSeparated(inp)
    /\ \A i \in 1..Len(Lexemes(inp)) :
          LET t == Lexemes(inp)[i].text
          IN  \/ IsPlainNumber(t) \/ IsOperatorText(t) \/ t \in DelimiterTexts
              \/ IsIdentText(t) \/ IsStringText(t)

\* the length of the source text that a token implies
TokenLength(tok) ==
    CASE tok.kind.tag \in {"Integer", "Float", "Ident"} -> Len(tok.kind.text)
      [] tok.kind.tag = "String" -> Len(tok.kind.text) + 2
      [] tok.kind.tag = "Match" -> 5
      [] tok.kind.tag = "Import" -> 6
      [] tok.kind.tag \in {o.tag : o \in OperatorTexts} ->
            Len((CHOOSE o \in OperatorTexts : o.tag = tok.kind.tag).text)
      [] OTHER -> 1

\* the input sliced by the position and length of a token
TokenSlice(inp, tok) ==
    SubSeq(inp, tok.position.char + 1,
           IF tok.position.char + TokenLength(tok) <= Len(inp)
           THEN tok.position.char + TokenLength(tok) ELSE Len(inp))

RECURSIVE ConcatSlices(_, _)
ConcatSlices(inp, toks) ==
    IF toks = <<>> THEN <<>>
    ELSE TokenSlice(inp, Head(toks)) \o ConcatSlices(inp, Tail(toks))

RECURSIVE WithoutSkipped(_)
WithoutSkipped(inp) ==
    IF inp = <<>> THEN <<>>
    ELSE IF Head(inp) \in Skipped THEN WithoutSkipped(Tail(inp))
    ELSE <<Head(inp)>> \o WithoutSkipped(Tail(inp))

\* C12: for an input of well-formed tokens separated by single blanks, the
\* slices of the input taken at the position and length of each produced
\* token, concatenated, are the input with its white space removed.
C12_SlicesReproduceInput ==
    (WellFormedTokens(input) /\ ret.tag = "None")
        => ConcatSlices(input, tokens) = WithoutSkipped(input)

(***************************************************************************)
(* Numeric literals.                                                       *)
(***************************************************************************)
AtNumber == Called /\ GetCurrentChar(input, lexPos) \in Digits

\* what the numeric scan started at lexPos accumulates
Scanned == NumScan(input, lexPos, <<>>, "Int")

\* C13: the text accumulated by the numeric scan is always parseable as the
\* selected type: at most one '.' when the type is Float, only digits when
\* it is Int, so the final parse never fails and the arm never aborts.
C13_ScannedTextParses ==
    AtNumber =>
        /\ Scanned.num_type = "Float" => DotCount(Scanned.num) <= 1
        /\ Scanned.num_type = "Int" => \A i \in 1..Len(Scanned.num) : Scanned.num[i] \in Digits
        /\ ret.tag = "Some"

(***************************************************************************)
(* Fatal errors.                                                           *)
(***************************************************************************)
\* C14: on an operator character whose lookahead is neither the character
\* completing its two-character operator nor end of input, blank, tab or
\* carriage return, next() aborts with "Undefined token." and returns no
\* token: there is no single-character fallback.
C14_OperatorWithoutTerminatorAborts ==
    (/\ AtOperator
     /\ GetPeekChar(input, lexPos) \notin
           {DoubleOf(GetCurrentChar(input, lexPos)).text[2], NoneChar, " ", "\t", "\r"})
        => ret = RetPanic("Undefined token.")

\* '+' directly followed by a digit, after an earlier token, aborted
C14_Witness ==
    /\ ret.tag = "Panic"
    /\ GetCurrentChar(input, lexPos) = "+"
    /\ GetPeekChar(input, lexPos) = "1"
    /\ Len(tokens) = 1

\* C15 (as stated): when the input ends inside a string literal, next()
\* raises no error and returns a String token holding the rest of the input
\* after the opening quote.
C15_UnterminatedStringAccepted ==
    (AtString /\ ~Terminated(input, lexPos.char)) =>
        /\ ret.tag = "Some"
        /\ ret.tok.kind = StringKind(SubSeq(input, lexPos.char + 2, Len(input)))

\* C15 (amended): when the input ends inside a string literal, next() scans
\* to the end of the input and then aborts with a fatal error (the slice
\* from the offset after the opening quote to 0 is out of order); it
\* returns no token.
C15_UnterminatedStringAborts ==
    (AtString /\ ~Terminated(input, lexPos.char)) =>
        /\ ret = RetPanic("slice index")
        /\ position.char = Len(input)
        /\ \A i \in 1..Len(tokens) : tokens[i].position.char <= lexPos.char

\* an unterminated literal with a body, after an earlier token, aborted
C15_Witness ==
    /\ AtString
    /\ ~Terminated(input, lexPos.char)
    /\ Len(input) > lexPos.char + 1
    /\ ret.tag = "Panic"
    /\ Len(tokens) = 1

(***************************************************************************)
(* Lines and columns.                                                      *)
(***************************************************************************)
\* the offset of the first character of the line that offset k is on
LineStart(inp, k) ==
    LET newlines == {i \in 1..k : i <= Len(inp) /\ inp[i] = "\n"}
    IN  IF newlines = {} THEN 0
        ELSE CHOOSE i \in newlines : \A j \in newlines : j <= i

\* the number of newline characters among the first k characters
NewlinesBefore(inp, k) == Cardinality({i \in 1..k : i <= Len(inp) /\ inp[i] = "\n"})

\* C16: line is 1-based and column is 0-based: the column of the cursor is
\* the number of characters between the start of its line and the cursor
\* (0 on the first character of every line), and a token reports the
\* 0-based column of the character at its offset.
C16_ColumnIsZeroBased ==
    /\ position.line >= 1
    /\ position.column = position.char - LineStart(input, position.char)
    /\ ret.tag = "Some" =>
          ret.tok.position.column =
              ret.tok.position.char - LineStart(input, ret.tok.position.char)

\* C17: line is 1 plus the number of newline characters consumed so far,
\* whether skipped between tokens or consumed inside a string literal; no
\* result is produced by a newline (the arm that answers a call is never
\* entered on one); a newline inside a terminated string does not end the
\* literal: the scan goes on to the closing quote.
C17_LineCountsNewlines ==
    /\ position.line = 1 + NewlinesBefore(input, position.char)
    /\ Called => GetCurrentChar(input, lexPos) # "\n"
    /\ (AtString /\ Terminated(input, lexPos.char)) =>
          /\ ret.tag = "Some"
          /\ ret.tok.kind.tag = "String"
          /\ position.char = ClosingQuote(input, lexPos.char)

\* a newline was skipped before a string literal that holds another one
C17_Witness ==
    /\ ret.tag = "Some"
    /\ ret.tok.kind.tag = "String"
    /\ lexPos.line = 2
    /\ position.line = 3

(***************************************************************************)
(* The '.' of a numeric literal.                                           *)
(***************************************************************************)
CharAt(inp, j) == IF j < Len(inp) THEN inp[j + 1] ELSE NoneChar

\* the character at offset j continues a number: a digit, or a '.' with a
\* digit immediately after it
ContinuesNumber(inp, j) ==
    \/ CharAt(inp, j) \in Digits
    \/ CharAt(inp, j) = "." /\ CharAt(inp, j + 1) \in Digits

\* the offset at which a number that starts at offset k stops
NumberEnd(inp, k) ==
    CHOOSE j \in k..Len(inp) :
        /\ ~ContinuesNumber(inp, j)
        /\ \A i \in k..(j - 1) : ContinuesNumber(inp, i)

NumberText == Slice(input, lexPos.char, NumberEnd(input, lexPos.char))

\* C18: the numeric scan consumes a '.' only when a digit immediately
\* follows it: the call leaves the cursor on the first character that is
\* neither a digit nor such a '.', so a '.' without a digit after it stops
\* the scan and is the character under the cursor when the call is over; a
\* token the call returns is the number scanned so far, an Integer when no
\* '.' was consumed and a Float otherwise, and the call returns one exactly
\* when that text parses.
C18_DotNeedsDigit ==
    AtNumber =>
        /\ position.char = NumberEnd(input, lexPos.char)
        /\ \A j \in lexPos.char..(position.char - 1) :
              CharAt(input, j) = "." => CharAt(input, j + 1) \in Digits
        /\ CharAt(input, NumberEnd(input, lexPos.char)) = "."
              => /\ GetCurrentChar(input, position) = "."
                 /\ GetPeekChar(input, position) \notin Digits
        /\ ret.tag = "Some" =>
              /\ ret.tok.position = lexPos
              /\ ret.tok.kind = IF DotCount(NumberText) = 0
                                THEN IntegerKind(Numeral(NumberText))
                                ELSE ParseF32(NumberText)
        /\ ret.tag = "Some" <=>
              IF DotCount(NumberText) = 0 THEN FitsUsize(NumberText)
              ELSE DotCount(NumberText) = 1

\* "1." was lexed: Integer(1) is returned and the cursor is on the '.'
C18_Witness ==
    /\ AtNumber
    /\ ret.tag = "Some"
    /\ ret.tok.kind.tag = "Integer"
    /\ GetCurrentChar(input, position) = "."
    /\ position.char = lexPos.char + 1

(***************************************************************************)
(* Kinds that are declared and never produced.                             *)
(***************************************************************************)
NeverProduced == {"Percent", "Period", "Semicolon"}

\* C19: no call ever returns a token of kind Percent, Period or Semicolon;
\* a call that starts on '%', '.' or ';' (blanks and newlines skipped) aborts
\* with "Undefined token." and returns nothing.
C19_NoPercentPeriodSemicolon ==
    /\ \A i \in 1..Len(tokens) : tokens[i].kind.tag \notin NeverProduced
    /\ ret.tag = "Some" => ret.tok.kind.tag \notin NeverProduced
    /\ (Called /\ GetCurrentChar(input, lexPos) \in {"%", ".", ";"}) =>
          ret = RetPanic("Undefined token.")

\* the second call on "1." starts on the '.' the number left and aborts
C19_Witness ==
    /\ Len(tokens) = 1
    /\ tokens[1].kind.tag = "Integer"
    /\ GetCurrentChar(input, lexPos) = "."
    /\ ret = RetPanic("Undefined token.")

====
